---- MODULE Spec2Model ----
(***************************************************************************)
(* State-synchronisation and page-scoped undo/redo engine of server.js     *)
(* (the second, current version of the server: src/server.js:212-688).     *)
(*                                                                         *)
(* A JavaScript object is a function whose DOMAIN is the set of keys that  *)
(* are defined on it: `c[field] !== undefined` is `field \in DOMAIN c`.    *)
(* Every socket.io handler runs to completion, so each handler is one      *)
(* action; the messages it emits are collected per recipient in `sent`.    *)
(***************************************************************************)
EXTENDS Integers, Sequences, FiniteSets, TLC

VARIABLES
    gameState,    \* the canonical document            (server.js:291-313)
    clientModes,  \* Map socketId -> registered mode    (server.js:394)
    sockets,      \* io.sockets.sockets: the connected sockets
    sent,         \* per socket, the messages the last handler emitted to it
    now,          \* Date.now(): logical time, read at every entry creation
    lastOp,       \* the last handler that ran, with its inputs and outcome
    undone,       \* document just before the last handler, when it was an effective undo
    sinceSave,    \* characters at the last save-history-entry(combat), while no history op followed
    run,          \* the current run of consecutive effective save-history-entry calls
    edits         \* number of update-state / update-character / update-combat events so far

vars == <<gameState, clientModes, sockets, sent, now, lastOp, undone, sinceSave, run,
          edits>>

-----------------------------------------------------------------------------
(* Bounds of the model *)

\* Spec: entries created (Date.now() readings) and update events per behaviour
MaxClock == 2
MaxEdits == 1
\* SpecReplay: the same, for one connection and longer histories
MaxReplayClock == 3
MaxReplayEdits == 1
\* SpecDeep: entries created per behaviour, and update events
MaxDeepClock == 64
MaxDeepEdits == 1
\* SpecDeep: consecutive save-history-entry events
MaxDeepRun == 22
\* SpecRoute: entries created and update events per behaviour
MaxRouteClock == 3
MaxRouteEdits == 1
\* SpecOpen: entries created and update events per behaviour
MaxOpenClock == 1
MaxOpenEdits == 2

-----------------------------------------------------------------------------
(* Program constants *)

MAX_HISTORY == 20

Pages == {"combat", "spells", "monsters", "inventory"}

PAGE_CHAR_FIELDS ==
    [ combat    |-> {"currentHp", "maxHp", "tempHp", "initiative", "effects",
                     "deathSaves", "concentrationActive", "currentPower", "maxPower"},
      spells    |-> {"spellSlots", "abilities", "hitDice", "maxHitDice", "wizardSettings"},
      monsters  |-> {"abilities"},
      inventory |-> {"inventory"} ]

InitCombatState ==
    [active |-> FALSE, currentTurn |-> 0, round |-> 1, playedThisRound |-> <<>>]

EmptyStacks == [p \in Pages |-> <<>>]

InitGameState ==
    [ characters      |-> <<>>,
      combatState     |-> InitCombatState,
      monsterDatabase |-> <<>>,
      history         |-> EmptyStacks,
      redo            |-> EmptyStacks ]

-----------------------------------------------------------------------------
(* Inputs the clients send *)

Sockets == {"s1", "s2"}

\* the mode each client registers with: s1 is the DM's browser, s2 a player's
\* (or one sending an unrecognised tag)
ModesOf(s) == IF s = "s1" THEN {"dm"} ELSE {"player", "spectator"}

\* page identifiers sent with history requests: the four pages and an unknown one
PageInputs == Pages \cup {"loot"}

P1 == [id |-> "p1", type |-> "player", currentHp |-> 1, spellSlots |-> 1]
M1 == [id |-> "m1", type |-> "monster", revealedToPlayers |-> FALSE, abilities |-> 1]

Templates == {P1, M1}

\* values an edit may give to a key
EditValues ==
    [ currentHp         |-> {2},
      spellSlots        |-> {2},
      abilities         |-> {2},
      revealedToPlayers |-> {TRUE} ]

Put(c, k, v) == [x \in DOMAIN c \cup {k} |-> IF x = k THEN v ELSE c[x]]

\* a client edits one key of a character it holds: a key the character has,
\* or currentHp (which a freshly created monster does not have yet)
EditsOf(c) ==
    UNION { { Put(c, k, v) : v \in EditValues[k] } :
            k \in (DOMAIN EditValues) \cap (DOMAIN c \cup {"currentHp"}) } \ {c}

CombatInputs == {[InitCombatState EXCEPT !.active = TRUE, !.round = 2]}

-----------------------------------------------------------------------------
(* Helpers for JavaScript sequences and maps *)

Ids(chars) == {chars[i].id : i \in 1..Len(chars)}

\* Array.prototype.findIndex(c => c.id === id): first index, 0 for -1
FindIndex(chars, id) ==
    IF \E i \in 1..Len(chars) : chars[i].id = id
    THEN CHOOSE i \in 1..Len(chars) :
            chars[i].id = id /\ \A j \in 1..(i - 1) : chars[j].id # id
    ELSE 0

\* new Map(); forEach(c => map.set(c.id, c)); map.get(id): the last entry with that id
MapGet(chars, id) ==
    chars[CHOOSE i \in 1..Len(chars) :
            chars[i].id = id /\ \A j \in (i + 1)..Len(chars) : chars[j].id # id]

\* clientModes.get(socket.id) || 'player'; "undefined" stands for no entry in the Map
ModeOf(s) == IF clientModes[s] = "undefined" THEN "player" ELSE clientModes[s]

\* char.type === 'player' || (char.type === 'monster' && char.revealedToPlayers)
VisibleToPlayers(char) ==
    \/ char.type = "player"
    \/ /\ char.type = "monster"
       /\ "revealedToPlayers" \in DOMAIN char
       /\ char.revealedToPlayers = TRUE

-----------------------------------------------------------------------------
(* Snapshot extractor / merger *)

Null == [null |-> TRUE]

\* JSON.parse(JSON.stringify(v)): values of the model are immutable
DeepCopy(v) == v

\* property names every plain object inherits from Object.prototype: for these
\* gameState.history[page] and PAGE_CHAR_FIELDS[page] are truthy without being arrays
ObjectPrototypeKeys == {"constructor"}

\* !(!page || !stacks[page])
KnownPage(stacks, page) == page \in DOMAIN stacks \/ page \in ObjectPrototypeKeys

\* mutant: the snapshot keeps whole characters
extractPageSnapshot_Whole(page) == gameState.characters

extractPageSnapshot(page) ==
    IF page \notin DOMAIN PAGE_CHAR_FIELDS THEN <<>>
    ELSE LET fields == PAGE_CHAR_FIELDS[page]
             partial(c) ==
                 IF page = "monsters" /\ c.type # "monster"
                 THEN [id |-> c.id, type |-> c.type]
                 ELSE [k \in {"id", "type"} \cup (fields \cap DOMAIN c) |-> DeepCopy(c[k])]
         IN  [i \in 1..Len(gameState.characters) |-> partial(gameState.characters[i])]

\* mutant: the merge replaces the character by its snapshot
MergeFields_Replace(page, currentChar, snapshotChar) == snapshotChar

\* mutant: the merge restores nothing
MergeFields_Skip(page, currentChar, snapshotChar) == currentChar

\* the fields.forEach(...) loop of the merge: overwrite the owned fields the snapshot defines
MergeFields(page, currentChar, snapshotChar) ==
    LET fields == PAGE_CHAR_FIELDS[page]
        given  == fields \cap DOMAIN snapshotChar
    IN  [k \in DOMAIN currentChar \cup given |->
            IF k \in given THEN DeepCopy(snapshotChar[k]) ELSE currentChar[k]]

\* mutant: the restore merges fields and never touches the list itself
applyPageScopedRestore_FieldsOnly(page, snapshotChars, snapshotCombatState) ==
    LET merged(c) ==
            IF c.id \notin Ids(snapshotChars) THEN c
            ELSE MergeFields(page, c, MapGet(snapshotChars, c.id))
    IN  [ characters  |-> [i \in 1..Len(gameState.characters) |->
                              merged(gameState.characters[i])],
          combatState |-> IF page = "combat" THEN snapshotCombatState
                          ELSE gameState.combatState ]

\* mutant: the combat restore puts the missing characters in front of the list
applyPageScopedRestore_InsertFirst(page, snapshotChars, snapshotCombatState) ==
    LET merged(c) ==
            IF c.id \notin Ids(snapshotChars) THEN c
            ELSE IF page = "monsters" /\ c.type # "monster" THEN c
            ELSE MergeFields(page, c, MapGet(snapshotChars, c.id))
        chars1 == [i \in 1..Len(gameState.characters) |-> merged(gameState.characters[i])]
        removed(sc) == sc.id \notin Ids(chars1)
        inSnapshot(c) == c.id \in Ids(snapshotChars)
    IN  [ characters  |-> IF page = "combat"
                          THEN SelectSeq(SelectSeq(snapshotChars, removed) \o chars1,
                                         inSnapshot)
                          ELSE chars1,
          combatState |-> IF page = "combat" THEN snapshotCombatState
                          ELSE gameState.combatState ]

\* the characters and combatState of the document after the merge
applyPageScopedRestore(page, snapshotChars, snapshotCombatState) ==
    IF page \notin DOMAIN PAGE_CHAR_FIELDS
    THEN [characters |-> gameState.characters, combatState |-> gameState.combatState]
    ELSE LET cs == IF page = "combat" THEN DeepCopy(snapshotCombatState)
                   ELSE gameState.combatState
             cur == gameState.characters
             merged(c) ==
                 IF c.id \notin Ids(snapshotChars) THEN c
                 ELSE IF page = "monsters" /\ c.type # "monster" THEN c
                 ELSE MergeFields(page, c, MapGet(snapshotChars, c.id))
             chars1 == [i \in 1..Len(cur) |-> merged(cur[i])]
             removed(sc) == sc.id \notin Ids(chars1)
             inSnapshot(c) == c.id \in Ids(snapshotChars)
             chars2 == chars1 \o SelectSeq(snapshotChars, removed)
         IN  [ characters  |-> IF page = "combat" THEN SelectSeq(chars2, inSnapshot)
                               ELSE chars1,
               combatState |-> cs ]

\* the entry the three history handlers build from the current document
NewEntry(page, description) ==
    [ characters  |-> extractPageSnapshot(page),
      combatState |-> IF page = "combat" THEN DeepCopy(gameState.combatState) ELSE Null,
      description |-> description,
      timestamp   |-> now ]

\* mutant: the stack is never trimmed
PushTrim_NoTrim(stack, entry) == Append(stack, entry)

\* mutant: on overflow the newest entry is dropped instead of the oldest
PushTrim_DropNewest(stack, entry) ==
    IF Len(stack) + 1 > MAX_HISTORY THEN stack ELSE Append(stack, entry)

\* stack.push(entry); if (stack.length > MAX_HISTORY) stack.shift()
PushTrim(stack, entry) ==
    LET pushed == Append(stack, entry)
    IN  IF Len(pushed) > MAX_HISTORY THEN Tail(pushed) ELSE pushed

\* stack.pop(): the stack without its top
Pop(stack) == SubSeq(stack, 1, Len(stack) - 1)

Top(stack) == stack[Len(stack)]

-----------------------------------------------------------------------------
(* View filter and broadcast router *)

\* mutant: the history-applied payload is sent unfiltered
filterCharactersForPlayers_Unfiltered(characters) == characters

filterCharactersForPlayers(characters) == SelectSeq(characters, VisibleToPlayers)

\* mutant: the projection is the document itself
filterStateForPlayers_Whole(state) == state

\* mutant: the projection filters the characters and keeps every stack
filterStateForPlayers_KeepStacks(state) ==
    [DeepCopy(state) EXCEPT !.characters = SelectSeq(state.characters, VisibleToPlayers)]

filterStateForPlayers(state) ==
    [ DeepCopy(state) EXCEPT
        !.characters = SelectSeq(state.characters, VisibleToPlayers),
        !.history = [@ EXCEPT !.monsters = <<>>],
        !.redo = [@ EXCEPT !.monsters = <<>>] ]

Msg(event, payload) == [event |-> event, payload |-> payload]

NoSent == [t \in Sockets |-> <<>>]

\* broadcastState(excludeSocketId), called when the document is `state`
broadcastState(state, excludeSocketId) ==
    [ t \in Sockets |->
        IF t \in sockets /\ t # excludeSocketId
        THEN << Msg("state-sync",
                    IF ModeOf(t) = "dm" THEN state ELSE filterStateForPlayers(state)) >>
        ELSE <<>> ]

-----------------------------------------------------------------------------
(* Bookkeeping of the last handler *)

None == [none |-> TRUE]

Op(op, s, page, result, note) ==
    [op |-> op, sock |-> s, page |-> page, result |-> result, note |-> note]

\* a handler that is no history operation; the sender is kept for the updates
Plain(op, s, result) ==
    /\ lastOp' = Op(op, IF op \in {"update-state", "update-character", "update-combat"}
                        THEN s ELSE "-", "-", result, {})
    /\ undone' = None
    /\ UNCHANGED <<now, sinceSave, run>>

-----------------------------------------------------------------------------
(* Connection handlers *)

\* io.on('connection'), while the process is up: the socket joins and is sent the
\* player projection
Connect(s) ==
    /\ lastOp.result # "threw"
    /\ s \notin sockets
    /\ sockets' = sockets \cup {s}
    /\ sent' = [NoSent EXCEPT ![s] = << Msg("state-sync", filterStateForPlayers(gameState)) >>]
    /\ Plain("connection", s, "applied")
    /\ UNCHANGED <<gameState, clientModes, edits>>

RegisterMode(s, mode) ==
    /\ s \in sockets
    /\ clientModes' = [clientModes EXCEPT ![s] = mode]
    /\ sent' = [NoSent EXCEPT ![s] =
                  << Msg("state-sync",
                         IF mode = "dm" THEN gameState ELSE filterStateForPlayers(gameState)) >>]
    /\ Plain("register-mode", s, "applied")
    /\ UNCHANGED <<gameState, sockets, edits>>

Disconnect(s) ==
    /\ s \in sockets
    /\ sockets' = sockets \ {s}
    /\ clientModes' = [clientModes EXCEPT ![s] = "undefined"]
    /\ sent' = NoSent
    /\ Plain("disconnect", s, "applied")
    /\ UNCHANGED <<gameState, edits>>

-----------------------------------------------------------------------------
(* Update handlers *)

\* mutant: an entry whose id is not in the list is added to it
ReplaceById_Upsert(chars, updatedChar) ==
    LET index == FindIndex(chars, updatedChar.id)
    IN  IF index # 0 THEN [chars EXCEPT ![index] = updatedChar]
        ELSE Append(chars, updatedChar)

\* gameState.characters[index] = updatedChar, when findIndex found the id
ReplaceById(chars, updatedChar) ==
    LET index == FindIndex(chars, updatedChar.id)
    IN  IF index # 0 THEN [chars EXCEPT ![index] = updatedChar] ELSE chars

\* data.characters.forEach(...) of a non-dm update-state
RECURSIVE ApplyPlayerUpdates(_, _)
ApplyPlayerUpdates(chars, updates) ==
    IF updates = <<>> THEN chars
    ELSE LET updatedChar == Head(updates)
         IN  ApplyPlayerUpdates(
                 IF VisibleToPlayers(updatedChar) THEN ReplaceById(chars, updatedChar)
                 ELSE chars,
                 Tail(updates))

UpdateState(s, data) ==
    /\ s \in sockets
    /\ LET has(k) == k \in DOMAIN data
           after ==
               IF ModeOf(s) = "dm"
               THEN [ gameState EXCEPT
                        !.characters = IF has("characters") THEN data.characters ELSE @,
                        !.combatState = IF has("combatState") THEN data.combatState ELSE @,
                        !.monsterDatabase =
                            IF has("monsterDatabase") THEN data.monsterDatabase ELSE @ ]
               ELSE [ gameState EXCEPT
                        !.characters = IF has("characters")
                                       THEN ApplyPlayerUpdates(@, data.characters) ELSE @,
                        !.combatState = IF has("combatState") THEN data.combatState ELSE @ ]
       IN  /\ gameState' = after
           /\ sent' = broadcastState(after, s)
    /\ edits' = edits + 1
    /\ Plain("update-state", s, "applied")
    /\ UNCHANGED <<clientModes, sockets>>

UpdateCharacter(s, characterData) ==
    /\ s \in sockets
    /\ LET blocked == /\ ModeOf(s) = "player"
                      /\ characterData.type = "monster"
                      /\ ~ ( "revealedToPlayers" \in DOMAIN characterData
                             /\ characterData.revealedToPlayers = TRUE )
           index == FindIndex(gameState.characters, characterData.id)
       IN  IF blocked \/ index = 0
           THEN /\ UNCHANGED gameState
                /\ sent' = NoSent
                /\ Plain("update-character", s, "ignored")
           ELSE /\ gameState' = [gameState EXCEPT !.characters[index] = characterData]
                /\ sent' = [ t \in Sockets |->
                               IF /\ t \in sockets
                                  /\ t # s
                                  /\ (ModeOf(t) = "dm" \/ VisibleToPlayers(characterData))
                               THEN << Msg("character-updated", characterData) >>
                               ELSE <<>> ]
                /\ Plain("update-character", s, "applied")
    /\ edits' = edits + 1
    /\ UNCHANGED <<clientModes, sockets>>

UpdateCombat(s, combatData) ==
    /\ s \in sockets
    /\ gameState' = [gameState EXCEPT !.combatState = combatData]
    /\ sent' = [ t \in Sockets |->
                   IF t \in sockets /\ t # s THEN << Msg("combat-updated", combatData) >>
                   ELSE <<>> ]
    /\ edits' = edits + 1
    /\ Plain("update-combat", s, "applied")
    /\ UNCHANGED <<clientModes, sockets>>

-----------------------------------------------------------------------------
(* History manager *)

\* !page || !gameState.history[page], then the dm-only gate of the monsters page
Refused(s, stacks, page) ==
    \/ ~ KnownPage(stacks, page)
    \/ page = "monsters" /\ ModeOf(s) # "dm"

\* description || ''
DescriptionOf(data) == IF "description" \in DOMAIN data THEN data.description ELSE ""

\* mutant: the redo stack survives a new entry
SaveStacks_KeepRedo(page, description) ==
    [ history |-> [gameState.history EXCEPT ![page] = PushTrim(@, NewEntry(page, description))],
      redo    |-> gameState.redo ]

\* mutant: a new entry clears the redo stack of every page
SaveStacks_ClearAllRedo(page, description) ==
    [ history |-> [gameState.history EXCEPT ![page] = PushTrim(@, NewEntry(page, description))],
      redo    |-> EmptyStacks ]

\* the two stacks after save-history-entry: push, trim, clear redo
SaveStacks(page, description) ==
    [ history |-> [gameState.history EXCEPT ![page] = PushTrim(@, NewEntry(page, description))],
      redo    |-> [gameState.redo EXCEPT ![page] = <<>>] ]

\* mutant: request-undo applies the top of history without popping it
UndoDocument_NoPop(page) ==
    LET previousState == Top(gameState.history[page])
        restored == applyPageScopedRestore(page, previousState.characters,
                                           previousState.combatState)
    IN  [ gameState EXCEPT
            !.redo[page] = PushTrim(@, NewEntry(page, "Aktualni stav")),
            !.characters = restored.characters,
            !.combatState = restored.combatState ]

\* the document after request-undo: current snapshot to redo, top of history merged
UndoDocument(page) ==
    LET previousState == Top(gameState.history[page])
        restored == applyPageScopedRestore(page, previousState.characters,
                                           previousState.combatState)
    IN  [ gameState EXCEPT
            !.redo[page] = PushTrim(@, NewEntry(page, "Aktualni stav")),
            !.history[page] = Pop(@),
            !.characters = restored.characters,
            !.combatState = restored.combatState ]

\* the document after request-redo: current snapshot to history, top of redo merged
RedoDocument(page) ==
    LET nextState == Top(gameState.redo[page])
        restored == applyPageScopedRestore(page, nextState.characters, nextState.combatState)
    IN  [ gameState EXCEPT
            !.history[page] = PushTrim(@, NewEntry(page, "Stav pred redo")),
            !.redo[page] = Pop(@),
            !.characters = restored.characters,
            !.combatState = restored.combatState ]

\* mutant: history-applied goes to the dm connections only
HistoryApplied_DmOnly(state, page, description, direction) ==
    [ t \in Sockets |->
        IF t \in sockets /\ ModeOf(t) = "dm"
        THEN << Msg("history-applied",
                    [ page        |-> page,
                      description |-> description,
                      direction   |-> direction,
                      characters  |-> state.characters,
                      combatState |-> state.combatState ]) >>
        ELSE <<>> ]

\* io.sockets.sockets.forEach(... emit('history-applied', ...)) over the document `state`
HistoryApplied(state, page, description, direction) ==
    [ t \in Sockets |->
        IF t \in sockets
        THEN << Msg("history-applied",
                    [ page        |-> page,
                      description |-> description,
                      direction   |-> direction,
                      characters  |-> IF ModeOf(t) = "dm" THEN state.characters
                                      ELSE filterCharactersForPlayers(state.characters),
                      combatState |-> state.combatState ]) >>
        ELSE <<>> ]

\* mutant: the error is emitted to every connection
HistoryError_ToAll(s, message) ==
    [ t \in Sockets |->
        IF t \in sockets THEN << Msg("history-error", [message |-> message]) >> ELSE <<>> ]

HistoryError(s, message) ==
    [NoSent EXCEPT ![s] = << Msg("history-error", [message |-> message]) >>]

\* a history request that returns before touching the document
Returned(op, s, page, result) ==
    /\ lastOp' = Op(op, s, page, result, {})
    /\ undone' = None
    /\ UNCHANGED <<gameState, now, sinceSave, run>>

\* a history request whose page passed the guards without naming a stack:
\* stacks[page].push is not a function, the TypeError is caught nowhere and ends
\* the process, which closes every connection
Threw(op, s, page) ==
    /\ lastOp' = Op(op, s, page, "threw", {})
    /\ sockets' = {}
    /\ clientModes' = [t \in Sockets |-> "undefined"]
    /\ sent' = NoSent
    /\ undone' = None
    /\ UNCHANGED <<gameState, now, sinceSave, run>>

\* some character kept its id and differs in a combat-owned field
CombatFieldChanged(before, after) ==
    \E i \in 1..Len(before), j \in 1..Len(after) :
        /\ before[i].id = after[j].id
        /\ \E f \in PAGE_CHAR_FIELDS.combat :
              \/ (f \in DOMAIN before[i]) # (f \in DOMAIN after[j])
              \/ f \in DOMAIN before[i] /\ f \in DOMAIN after[j] /\ before[i][f] # after[j][f]

SaveHistoryEntry(s, data) ==
    /\ s \in sockets
    /\ LET page == data.page
       IN  IF Refused(s, gameState.history, page)
           THEN /\ sent' = NoSent
                /\ Returned("save-history-entry", s, page, "ignored")
                /\ UNCHANGED <<clientModes, sockets>>
           ELSE IF page \notin DOMAIN gameState.history
           THEN Threw("save-history-entry", s, page)
           ELSE LET stacks == SaveStacks(page, DescriptionOf(data))
                    entry == NewEntry(page, DescriptionOf(data))
                    note == (IF gameState.redo[page] # <<>> THEN {"redo-dropped"} ELSE {})
                            \cup (IF Len(gameState.history[page]) = MAX_HISTORY
                                  THEN {"evicted"} ELSE {})
                IN  /\ gameState' = [gameState EXCEPT !.history = stacks.history,
                                                      !.redo = stacks.redo]
                    /\ sent' = NoSent
                    /\ now' = now + 1
                    /\ lastOp' = Op("save-history-entry", s, page, "applied", note)
                    /\ undone' = None
                    /\ sinceSave' = IF page = "combat"
                                    THEN [characters |-> gameState.characters] ELSE None
                    /\ run' = IF run # None /\ run.page = page
                              THEN [run EXCEPT !.entries = Append(@, entry)]
                              ELSE [page |-> page, entries |-> <<entry>>]
                    /\ UNCHANGED <<clientModes, sockets>>
    /\ UNCHANGED edits

RequestUndo(s, data) ==
    /\ s \in sockets
    /\ LET page == data.page
       IN  IF Refused(s, gameState.history, page)
           THEN /\ sent' = NoSent
                /\ Returned("request-undo", s, page, "ignored")
                /\ UNCHANGED <<clientModes, sockets>>
           ELSE IF page \notin DOMAIN gameState.history
           THEN Threw("request-undo", s, page)
           ELSE IF Len(gameState.history[page]) = 0
           THEN /\ sent' = HistoryError(s, "Nelze vratit zpet")
                /\ Returned("request-undo", s, page, "error")
                /\ UNCHANGED <<clientModes, sockets>>
           ELSE LET after == UndoDocument(page)
                    previousState == Top(gameState.history[page])
                    note == IF /\ page = "combat"
                               /\ sinceSave # None
                               /\ CombatFieldChanged(sinceSave.characters,
                                                     gameState.characters)
                            THEN {"save-edit-undo"} ELSE {}
                IN  /\ gameState' = after
                    /\ sent' = HistoryApplied(after, page, previousState.description, "undo")
                    /\ now' = now + 1
                    /\ lastOp' = Op("request-undo", s, page, "applied", note)
                    /\ undone' = [ page        |-> page,
                                   characters  |-> gameState.characters,
                                   combatState |-> gameState.combatState ]
                    /\ sinceSave' = None
                    /\ run' = None
                    /\ UNCHANGED <<clientModes, sockets>>
    /\ UNCHANGED edits

RequestRedo(s, data) ==
    /\ s \in sockets
    /\ LET page == data.page
       IN  IF Refused(s, gameState.redo, page)
           THEN /\ sent' = NoSent
                /\ Returned("request-redo", s, page, "ignored")
                /\ UNCHANGED <<clientModes, sockets>>
           ELSE IF page \notin DOMAIN gameState.redo
           THEN Threw("request-redo", s, page)
           ELSE IF Len(gameState.redo[page]) = 0
           THEN /\ sent' = HistoryError(s, "Nelze posunout dopredu")
                /\ Returned("request-redo", s, page, "error")
                /\ UNCHANGED <<clientModes, sockets>>
           ELSE LET after == RedoDocument(page)
                    nextState == Top(gameState.redo[page])
                    note == IF undone # None /\ undone.page = page
                            THEN {"undo-redo"} ELSE {}
                IN  /\ gameState' = after
                    /\ sent' = HistoryApplied(after, page, nextState.description, "redo")
                    /\ now' = now + 1
                    /\ lastOp' = Op("request-redo", s, page, "applied", note)
                    /\ undone' = None
                    /\ sinceSave' = None
                    /\ run' = None
                    /\ UNCHANGED <<clientModes, sockets>>
    /\ UNCHANGED edits

-----------------------------------------------------------------------------
(* Inputs drawn from the current document, as a client holding it would send *)

RemoveAt(chars, i) == SubSeq(chars, 1, i - 1) \o SubSeq(chars, i + 1, Len(chars))

\* the character list with one character's hit points edited, or one character
\* removed or added
CharListInputs ==
    LET chars == gameState.characters
    IN  { [chars EXCEPT ![i] = Put(chars[i], "currentHp", 2)] : i \in 1..Len(chars) }
        \cup { RemoveAt(chars, i) : i \in 1..Len(chars) }
        \cup { Append(chars, c) : c \in { x \in Templates : x.id \notin Ids(chars) } }

StateInputs ==
    { [characters |-> l] : l \in CharListInputs }
    \cup { [combatState |-> cs] : cs \in CombatInputs }
    \cup { [monsterDatabase |-> <<"goblin">>] }

\* one character edited, or one the document does not hold
CharInputs ==
    LET chars == gameState.characters
    IN  UNION { EditsOf(chars[i]) : i \in 1..Len(chars) }
        \cup { x \in Templates : x.id \notin Ids(chars) }

HistoryInputs(PI) == { [page |-> p, description |-> "start"] : p \in PI }

-----------------------------------------------------------------------------
(* Specification: every handler, every page, short histories *)

\* the document is empty or was loaded from the autosave file (server.js:239-262)
Init ==
    /\ gameState \in { InitGameState, [InitGameState EXCEPT !.characters = <<P1, M1>>] }
    /\ clientModes = [s \in Sockets |-> "undefined"]
    /\ sockets = {}
    /\ sent = NoSent
    /\ now = 0
    /\ lastOp = Op("listen", "-", "-", "applied", {})
    /\ undone = None
    /\ sinceSave = None
    /\ run = None
    /\ edits = 0

\* the handlers run for the connections S and the pages PI, within the budgets
NextOf(S, PI, maxEdits, maxClock) ==
    \/ \E s \in S : Connect(s)
    \/ \E s \in S : \E mode \in ModesOf(s) : RegisterMode(s, mode)
    \/ \E s \in S : Disconnect(s)
    \/ edits < maxEdits /\ \E s \in S : \E data \in StateInputs : UpdateState(s, data)
    \/ edits < maxEdits /\ \E s \in S : \E c \in CharInputs : UpdateCharacter(s, c)
    \/ edits < maxEdits /\ \E s \in S : \E cs \in CombatInputs : UpdateCombat(s, cs)
    \/ now < maxClock /\ \E s \in S : \E d \in HistoryInputs(PI) : SaveHistoryEntry(s, d)
    \/ now < maxClock /\ \E s \in S : \E d \in HistoryInputs(PI) : RequestUndo(s, d)
    \/ now < maxClock /\ \E s \in S : \E d \in HistoryInputs(PI) : RequestRedo(s, d)

Next == NextOf(Sockets, PageInputs, MaxEdits, MaxClock)

Spec == Init /\ [][Next]_vars

\* one connection, longer histories
NextReplay == NextOf({"s1"}, PageInputs, MaxReplayEdits, MaxReplayClock)

SpecReplay == Init /\ [][NextReplay]_vars

\* both connections, undo followed by redo, on the two pages whose requests are
\* routed differently: combat for everyone, monsters for the dm only
RoutePageInputs == {"combat", "monsters"}

NextRoute == NextOf(Sockets, RoutePageInputs, MaxRouteEdits, MaxRouteClock)

SpecRoute == Init /\ [][NextRoute]_vars

-----------------------------------------------------------------------------
(* SpecDeep: one connection, which stays, fills the stacks of one page up to  *)
(* MAX_HISTORY.                                                               *)
(* It saves while nothing is undone, undoes all the way down once the stack  *)
(* is nearly full, redoes all the way up and saves again; it edits the       *)
(* document only just before the stack fills.                                *)

OnlyPage(p) ==
    \A q \in Pages \ {p} : gameState.history[q] = <<>> /\ gameState.redo[q] = <<>>

NearFull(p) == Len(gameState.history[p]) + Len(gameState.redo[p]) >= MAX_HISTORY - 1

Saving(p) ==
    /\ OnlyPage(p)
    /\ gameState.redo[p] = <<>>
    /\ run # None => Len(run.entries) < MaxDeepRun

Undoing(p) ==
    /\ OnlyPage(p)
    /\ NearFull(p)
    /\ gameState.history[p] # <<>> => Top(gameState.history[p]).description = "start"

Redoing(p) ==
    /\ OnlyPage(p)
    /\ gameState.history[p] # <<>> => Top(gameState.history[p]).description # "start"

Editing ==
    /\ edits < MaxDeepEdits
    /\ \E p \in Pages : /\ Len(gameState.history[p]) = MAX_HISTORY - 1
                         /\ gameState.redo[p] = <<>>

NextDeep ==
    \/ Connect("s1")
    \/ RegisterMode("s1", "dm")
    \/ Editing /\ \E data \in StateInputs : UpdateState("s1", data)
    \/ Editing /\ \E c \in CharInputs : UpdateCharacter("s1", c)
    \/ Editing /\ \E cs \in CombatInputs : UpdateCombat("s1", cs)
    \/ now < MaxDeepClock /\ \E d \in HistoryInputs(Pages) :
            Saving(d.page) /\ SaveHistoryEntry("s1", d)
    \/ now < MaxDeepClock /\ \E d \in HistoryInputs(Pages) :
            Undoing(d.page) /\ RequestUndo("s1", d)
    \/ now < MaxDeepClock /\ \E d \in HistoryInputs(Pages) :
            Redoing(d.page) /\ RequestRedo("s1", d)

SpecDeep == Init /\ [][NextDeep]_vars

-----------------------------------------------------------------------------
(* SpecOpen: the handlers take whatever a client may send, since the server  *)
(* validates no payload: a character list that repeats an id or edits any    *)
(* key, and a page name that is an inherited property of the stacks object.  *)

OpenPageInputs == PageInputs \cup ObjectPrototypeKeys

\* the character list with one character edited in any key, removed, added, or
\* listed a second time
OpenCharListInputs ==
    LET chars == gameState.characters
    IN  CharListInputs
        \cup UNION { { [chars EXCEPT ![i] = e] : e \in EditsOf(chars[i]) } :
                     i \in 1..Len(chars) }
        \cup { Append(chars, chars[i]) : i \in 1..Len(chars) }

OpenStateInputs == StateInputs \cup { [characters |-> l] : l \in OpenCharListInputs }

NextOpen ==
    \/ \E s \in Sockets : Connect(s)
    \/ \E s \in Sockets : \E mode \in ModesOf(s) : RegisterMode(s, mode)
    \/ \E s \in Sockets : Disconnect(s)
    \/ edits < MaxOpenEdits /\ \E s \in Sockets : \E data \in OpenStateInputs :
            UpdateState(s, data)
    \/ edits < MaxOpenEdits /\ \E s \in Sockets : \E c \in CharInputs :
            UpdateCharacter(s, c)
    \/ edits < MaxOpenEdits /\ \E s \in Sockets : \E cs \in CombatInputs :
            UpdateCombat(s, cs)
    \/ now < MaxOpenClock /\ \E s \in Sockets : \E d \in HistoryInputs(OpenPageInputs) :
            SaveHistoryEntry(s, d)
    \/ now < MaxOpenClock /\ \E s \in Sockets : \E d \in HistoryInputs(OpenPageInputs) :
            RequestUndo(s, d)
    \/ now < MaxOpenClock /\ \E s \in Sockets : \E d \in HistoryInputs(OpenPageInputs) :
            RequestRedo(s, d)

SpecOpen == Init /\ [][NextOpen]_vars

-----------------------------------------------------------------------------
(* Properties *)

HiddenMonster(c) ==
    /\ c.type = "monster"
    /\ ~ ("revealedToPlayers" \in DOMAIN c /\ c.revealedToPlayers = TRUE)

NoHiddenIn(chars) == \A i \in 1..Len(chars) : ~ HiddenMonster(chars[i])

StacksClean(stacks) ==
    \A p \in DOMAIN stacks : \A k \in 1..Len(stacks[p]) : NoHiddenIn(stacks[p][k].characters)

\* the messages of one event the last handler emitted to socket t
Received(t, event) == SelectSeq(sent[t], LAMBDA m : m.event = event)

Applied(op, page) == lastOp.op = op /\ lastOp.page = page /\ lastOp.result = "applied"

\* character c has the same value, or the same absence, for field f as character d
SameField(c, d, f) ==
    /\ (f \in DOMAIN c) <=> (f \in DOMAIN d)
    /\ f \in DOMAIN c => c[f] = d[f]

\* C1: no state-sync delivered to a connection whose role is not dm holds a monster
\* with revealedToPlayers not true, neither in characters nor in the character
\* lists of the entries of history[P] and redo[P]
C1_NoHiddenMonsterAnywhere ==
    \A t \in Sockets :
        clientModes[t] # "dm" =>
            \A k \in 1..Len(Received(t, "state-sync")) :
                LET d == Received(t, "state-sync")[k].payload
                IN  /\ NoHiddenIn(d.characters)
                    /\ StacksClean(d.history)
                    /\ StacksClean(d.redo)

\* C2: every state-sync, character-updated and history-applied message delivered
\* to a connection whose role is not dm carries no hidden monster as its character
\* or in its top-level characters list
C2_TopLevelFiltered ==
    \A t \in Sockets :
        clientModes[t] # "dm" =>
            /\ \A k \in 1..Len(Received(t, "state-sync")) :
                  NoHiddenIn(Received(t, "state-sync")[k].payload.characters)
            /\ \A k \in 1..Len(Received(t, "character-updated")) :
                  ~ HiddenMonster(Received(t, "character-updated")[k].payload)
            /\ \A k \in 1..Len(Received(t, "history-applied")) :
                  NoHiddenIn(Received(t, "history-applied")[k].payload.characters)

\* an undo or redo was broadcast while the document holds a hidden monster: the dm
\* received it, the other connection received the list without it
C2_Witness ==
    /\ lastOp.op \in {"request-undo", "request-redo"}
    /\ lastOp.result = "applied"
    /\ ~ NoHiddenIn(gameState.characters)
    /\ \E t \in sockets, u \in sockets :
          /\ clientModes[t] # "dm"
          /\ clientModes[u] = "dm"
          /\ Len(Received(t, "history-applied")) = 1
          /\ Len(Received(u, "history-applied")) = 1
          /\ ~ NoHiddenIn(Received(u, "history-applied")[1].payload.characters)

\* C3: request-undo(P) immediately followed by request-redo(P) leaves every
\* character as it was before the undo, in the fields P owns and in the fields it
\* does not own, and the combatState as it was
C3_UndoRedoInverse ==
    [][ ( /\ undone # None
          /\ lastOp'.op = "request-redo"
          /\ lastOp'.result = "applied"
          /\ lastOp'.page = undone.page )
        => /\ \A i \in 1..Len(undone.characters) :
                \E j \in 1..Len(gameState'.characters) :
                    gameState'.characters[j] = undone.characters[i]
           /\ gameState'.combatState = undone.combatState ]_vars

\* the spells-owned field f of character c is what the last save-history-entry on
\* spells recorded
SavedOnSpells(c, f) ==
    /\ gameState.history.spells # <<>>
    /\ \E k \in 1..Len(Top(gameState.history.spells).characters) :
          LET sc == Top(gameState.history.spells).characters[k]
          IN  sc.id = c.id /\ f \in DOMAIN sc /\ f \in DOMAIN c /\ sc[f] = c[f]

\* the characters of the document after the step keep field f of character c
KeepsField(c, f) ==
    \E j \in 1..Len(gameState'.characters) :
        /\ gameState'.characters[j].id = c.id
        /\ SameField(c, gameState'.characters[j], f)

UndoStep(page) ==
    /\ lastOp'.op = "request-undo"
    /\ lastOp'.page = page
    /\ lastOp'.result = "applied"

\* C4, as claimed: a request-undo on combat does not alter a spells-owned field
\* that was saved on spells, whatever the combat entry being restored contains
C4_SpellsFieldKept ==
    [][ UndoStep("combat") =>
          \A i \in 1..Len(gameState.characters) : \A f \in PAGE_CHAR_FIELDS.spells :
              SavedOnSpells(gameState.characters[i], f)
                  => KeepsField(gameState.characters[i], f) ]_vars

\* C4, amended: a request-undo on combat does not alter a spells-owned field that
\* was saved on spells, of a character the combat entry being restored lists
C4_SpellsFieldKeptIfListed ==
    [][ UndoStep("combat") =>
          \A i \in 1..Len(gameState.characters) : \A f \in PAGE_CHAR_FIELDS.spells :
              ( /\ SavedOnSpells(gameState.characters[i], f)
                /\ gameState.characters[i].id
                       \in Ids(Top(gameState.history.combat).characters) )
                  => KeepsField(gameState.characters[i], f) ]_vars

\* a combat undo has just run on a character whose spell slots were edited (to 2)
\* and saved on spells: the edited value is still there
C4_Witness ==
    /\ Applied("request-undo", "combat")
    /\ undone # None
    /\ \E i \in 1..Len(undone.characters), j \in 1..Len(gameState.characters) :
          LET c == undone.characters[i]
              d == gameState.characters[j]
          IN  /\ c.id = d.id
              /\ "spellSlots" \in DOMAIN c /\ c.spellSlots = 2
              /\ "spellSlots" \in DOMAIN d /\ d.spellSlots = 2
              /\ SavedOnSpells(d, "spellSlots")

\* C5: an effective undo or redo on page P never changes the value of a field
\* owned by another page Q, of any character that stays in the list
C5_OtherPagesFieldsKept ==
    [][ ( lastOp'.op \in {"request-undo", "request-redo"} /\ lastOp'.result = "applied" )
        => \A q \in Pages \ {lastOp'.page} : \A f \in PAGE_CHAR_FIELDS[q] :
             \A i \in 1..Len(gameState.characters), j \in 1..Len(gameState'.characters) :
                gameState.characters[i].id = gameState'.characters[j].id
                    => SameField(gameState.characters[i], gameState'.characters[j], f) ]_vars

\* C6: history[P] and redo[P] each hold at most MAX_HISTORY entries
C6_StacksBounded ==
    \A p \in Pages :
        /\ Len(gameState.history[p]) <= MAX_HISTORY
        /\ Len(gameState.redo[p]) <= MAX_HISTORY

\* more than MAX_HISTORY entries were saved, the oldest evicted, and then all
\* MAX_HISTORY entries undone: the redo stack is full
C6_Witness ==
    \E p \in Pages :
        /\ Len(gameState.redo[p]) = MAX_HISTORY
        /\ gameState.redo[p][1].timestamp > MAX_HISTORY

\* C7: after more than MAX_HISTORY consecutive effective save-history-entry calls
\* on page P, history[P] is the MAX_HISTORY most recent entries, oldest first
C7_MostRecentKept ==
    (run # None /\ Len(run.entries) > MAX_HISTORY)
        => gameState.history[run.page] =
              SubSeq(run.entries, Len(run.entries) - MAX_HISTORY + 1, Len(run.entries))

\* MAX_HISTORY + 2 entries were saved in a row: two were evicted
C7_Witness ==
    /\ run # None
    /\ Len(run.entries) = MAX_HISTORY + 2
    /\ lastOp.op = "save-history-entry"
    /\ "evicted" \in lastOp.note

\* C8: right after an effective save-history-entry on page P, redo[P] is empty
C8_SaveClearsRedo ==
    (lastOp.op = "save-history-entry" /\ lastOp.result = "applied")
        => gameState.redo[lastOp.page] = <<>>

\* an entry was saved on a page whose redo stack was not empty
C8_Witness ==
    /\ lastOp.op = "save-history-entry"
    /\ lastOp.result = "applied"
    /\ "redo-dropped" \in lastOp.note

\* the document after the step holds character c with field f as c has it
RestoresField(c, f) ==
    \E j \in 1..Len(gameState'.characters) :
        /\ gameState'.characters[j].id = c.id
        /\ SameField(c, gameState'.characters[j], f)

\* C9, as claimed: save-history-entry(combat), then updates only, then
\* request-undo(combat): every combat-owned field of every character is as it was
\* at the save, and redo[combat] has length 1
C9_UndoRestoresSaved ==
    [][ (sinceSave # None /\ UndoStep("combat"))
        => /\ \A i \in 1..Len(sinceSave.characters) : \A f \in PAGE_CHAR_FIELDS.combat :
                RestoresField(sinceSave.characters[i], f)
           /\ Len(gameState'.redo.combat) = 1 ]_vars

\* C9, amended: the same for every combat-owned field that was defined at the save
C9_UndoRestoresDefined ==
    [][ (sinceSave # None /\ UndoStep("combat"))
        => /\ \A i \in 1..Len(sinceSave.characters) : \A f \in PAGE_CHAR_FIELDS.combat :
                f \in DOMAIN sinceSave.characters[i]
                    => RestoresField(sinceSave.characters[i], f)
           /\ Len(gameState'.redo.combat) = 1 ]_vars

\* a combat undo has just reverted a change made to a combat-owned field after the
\* save-history-entry
C9_Witness ==
    /\ Applied("request-undo", "combat")
    /\ "save-edit-undo" \in lastOp.note
    /\ undone # None
    /\ CombatFieldChanged(undone.characters, gameState.characters)

\* exactly one history-error went to socket s and nothing to anyone else
ErrorOnlyTo(s) ==
    /\ Len(sent'[s]) = 1
    /\ sent'[s][1].event = "history-error"
    /\ \A t \in Sockets \ {s} : sent'[t] = <<>>

\* the step is a request-undo or request-redo on a known page whose stack is empty
EmptyStackRequest ==
    /\ lastOp'.page \in Pages
    /\ \/ lastOp'.op = "request-undo" /\ gameState.history[lastOp'.page] = <<>>
       \/ lastOp'.op = "request-redo" /\ gameState.redo[lastOp'.page] = <<>>

\* C10, as claimed: an undo or redo on a known page whose stack is empty sends one
\* history-error to the requester, nothing to the others, and changes nothing
C10_EmptyStackError ==
    [][ EmptyStackRequest
        => ErrorOnlyTo(lastOp'.sock) /\ gameState' = gameState ]_vars

\* C10, amended: the same, unless the page is monsters and the requester is not dm
C10_EmptyStackErrorIfAllowed ==
    [][ ( /\ EmptyStackRequest
          /\ ~ (lastOp'.page = "monsters" /\ ModeOf(lastOp'.sock) # "dm") )
        => ErrorOnlyTo(lastOp'.sock) /\ gameState' = gameState ]_vars

\* the dm asked to undo the monsters page with nothing to undo, while a second
\* connection was there and received nothing
C10_Witness ==
    /\ lastOp.op = "request-undo"
    /\ lastOp.page = "monsters"
    /\ lastOp.result = "error"
    /\ sockets = Sockets
    /\ Len(Received(lastOp.sock, "history-error")) = 1
    /\ \A t \in Sockets \ {lastOp.sock} : sent[t] = <<>>

\* the step is an update-state or update-character sent by a connection of role `role`
UpdateBy(role) ==
    /\ lastOp'.op \in {"update-state", "update-character"}
    /\ ModeOf(lastOp'.sock) = role

\* every character that is a hidden monster before the step is the same after it
HiddenMonstersKept ==
    \A i \in 1..Len(gameState.characters) :
        HiddenMonster(gameState.characters[i])
            => /\ i <= Len(gameState'.characters)
               /\ gameState'.characters[i] = gameState.characters[i]

\* C11: an update-state or update-character of a connection whose role is player
\* changes no character that is, at the time of the request, a hidden monster
C11_PlayerKeepsHiddenMonsters ==
    [][ UpdateBy("player") => HiddenMonstersKept ]_vars

\* socket t is registered with a tag that is neither dm nor player
OtherTag(t) == clientModes[t] \notin {"dm", "player", "undefined"}

\* every character the step changed is, after it, a player or a revealed monster,
\* and none was added or removed
OnlyVisibleWritten ==
    /\ Len(gameState'.characters) = Len(gameState.characters)
    /\ \A i \in 1..Len(gameState.characters) :
          gameState'.characters[i] # gameState.characters[i]
              => VisibleToPlayers(gameState'.characters[i])

\* the messages socket t holds after the step carry no hidden monster at top level
FilteredFor(t) ==
    \A k \in 1..Len(sent'[t]) :
        LET m == sent'[t][k]
        IN  /\ m.event \in {"state-sync", "history-applied"} => NoHiddenIn(m.payload.characters)
            /\ m.event = "character-updated" => ~ HiddenMonster(m.payload)

\* C12: a connection registered with a tag other than dm and player is restricted
\* as a player is: filtered projections only, update-state and update-character
\* write only players and revealed monsters, history requests on monsters do nothing
C12_OtherTagRestricted ==
    [][ /\ \A t \in Sockets : (clientModes'[t] \notin {"dm", "player", "undefined"})
                                  => FilteredFor(t)
        /\ ( /\ lastOp'.op \in {"update-state", "update-character"}
              /\ OtherTag(lastOp'.sock) )
            => /\ OnlyVisibleWritten
               /\ gameState'.history = gameState.history
               /\ gameState'.redo = gameState.redo
        /\ ( /\ lastOp'.op \in {"save-history-entry", "request-undo", "request-redo"}
              /\ lastOp'.page = "monsters"
              /\ OtherTag(lastOp'.sock) )
            => gameState' = gameState /\ sent' = NoSent ]_vars

\* C13: no two entries of the canonical characters list have the same id
C13_UniqueIds ==
    \A i, j \in 1..Len(gameState.characters) :
        gameState.characters[i].id = gameState.characters[j].id => i = j

\* entry e of a stack of page p holds page-scoped characters and the combatState
\* only for combat
EntryScoped(p, e) ==
    /\ \A k \in 1..Len(e.characters) :
          LET c == e.characters[k]
          IN  /\ DOMAIN c \subseteq {"id", "type"} \cup PAGE_CHAR_FIELDS[p]
              /\ (p = "monsters" /\ c.type # "monster") => DOMAIN c = {"id", "type"}
    /\ IF p = "combat"
       THEN e.combatState # Null /\ DOMAIN e.combatState = DOMAIN InitCombatState
       ELSE e.combatState = Null

\* C14: every entry of history[P] and redo[P] has character records with only id,
\* type and the fields of P (on monsters, non-monsters carry id and type only), and
\* a combatState snapshot exactly when P is combat
C14_EntriesScoped ==
    \A p \in Pages :
        /\ \A k \in 1..Len(gameState.history[p]) : EntryScoped(p, gameState.history[p][k])
        /\ \A k \in 1..Len(gameState.redo[p]) : EntryScoped(p, gameState.redo[p][k])

\* an undo on monsters left an entry on the redo stack that lists the player with id
\* and type only and the monster with its abilities, without revealedToPlayers
C14_Witness ==
    /\ gameState.redo.monsters # <<>>
    /\ \E i, j \in 1..Len(Top(gameState.redo.monsters).characters) :
          LET c == Top(gameState.redo.monsters).characters[i]
              d == Top(gameState.redo.monsters).characters[j]
          IN  /\ c.type = "player" /\ DOMAIN c = {"id", "type"}
              /\ d.type = "monster" /\ DOMAIN d = {"id", "type", "abilities"}
    /\ \E i \in 1..Len(gameState.characters) :
          "revealedToPlayers" \in DOMAIN gameState.characters[i]

\* the step is a history request for a page that is none of the four, or for
\* monsters by a connection that is not dm
RefusedRequest ==
    /\ lastOp'.op \in {"save-history-entry", "request-undo", "request-redo"}
    /\ \/ lastOp'.page \notin Pages
       \/ lastOp'.page = "monsters" /\ ModeOf(lastOp'.sock) # "dm"

\* C15: such a request is a silent no-op: the handler returns, nothing is sent to
\* anyone, the document and the connections are as before
C15_RefusedSilently ==
    [][ RefusedRequest
        => /\ lastOp'.result = "ignored"
           /\ sent' = NoSent
           /\ gameState' = gameState
           /\ sockets' = sockets ]_vars

\* the state-sync payload d shows the monsters of the document after the step as a
\* player may see them: the hidden ones not at all, the revealed ones as they are,
\* currentHp included
MonstersProjected(d) ==
    \A i \in 1..Len(gameState'.characters) :
        LET c == gameState'.characters[i]
        IN  c.type = "monster"
                => IF HiddenMonster(c)
                   THEN \A j \in 1..Len(d.characters) : d.characters[j] # c
                   ELSE \E j \in 1..Len(d.characters) :
                            /\ d.characters[j] = c
                            /\ SameField(d.characters[j], c, "currentHp")

\* the step is an update-state of a dm that reveals a monster which was hidden
RevealStep ==
    /\ lastOp'.op = "update-state"
    /\ ModeOf(lastOp'.sock) = "dm"
    /\ \E i \in 1..Len(gameState.characters), j \in 1..Len(gameState'.characters) :
          /\ gameState.characters[i].id = gameState'.characters[j].id
          /\ HiddenMonster(gameState.characters[i])
          /\ gameState'.characters[j].type = "monster"
          /\ ~ HiddenMonster(gameState'.characters[j])

\* C16: every state-sync a connection that is not dm receives omits the monsters
\* that are hidden and carries the revealed ones with the currentHp of the
\* document; the update-state by which the dm reveals a monster delivers such a
\* state-sync to every other connection
C16_RevealScenario ==
    [][ /\ \A t \in Sockets : \A k \in 1..Len(sent'[t]) :
              (clientModes'[t] # "dm" /\ sent'[t][k].event = "state-sync")
                  => MonstersProjected(sent'[t][k].payload)
        /\ RevealStep
              => \A t \in sockets \ {lastOp'.sock} :
                     /\ Len(sent'[t]) = 1
                     /\ sent'[t][1].event = "state-sync"
                     /\ MonstersProjected(sent'[t][1].payload) ]_vars

\* the dm has just revealed a monster whose currentHp had been set to 2, and the
\* player connection holds a state-sync that lists it with currentHp 2
C16_Witness ==
    /\ lastOp.op = "update-state"
    /\ clientModes[lastOp.sock] = "dm"
    /\ \E t \in sockets : \E i \in 1..Len(gameState.characters) :
          LET c == gameState.characters[i]
          IN  /\ clientModes[t] = "player"
              /\ c.type = "monster" /\ ~ HiddenMonster(c)
              /\ "currentHp" \in DOMAIN c /\ c.currentHp = 2
              /\ Len(Received(t, "state-sync")) = 1
              /\ \E j \in 1..Len(Received(t, "state-sync")[1].payload.characters) :
                    Received(t, "state-sync")[1].payload.characters[j] = c

\* C17: every projection sent to a connection that is not dm has history.monsters
\* and redo.monsters empty, and the handlers that project (connection,
\* register-mode, update-state) leave the stacks of the document as they are
C17_MonsterStacksBlanked ==
    [][ /\ \A t \in Sockets : \A k \in 1..Len(sent'[t]) :
              (clientModes'[t] # "dm" /\ sent'[t][k].event = "state-sync")
                  => /\ sent'[t][k].payload.history.monsters = <<>>
                     /\ sent'[t][k].payload.redo.monsters = <<>>
        /\ lastOp'.op \in {"connection", "register-mode", "update-state"}
              => /\ gameState'.history = gameState.history
                 /\ gameState'.redo = gameState.redo ]_vars

\* a connection that is not dm holds a projection while the monsters page of the
\* document has an entry to undo
C17_Witness ==
    /\ gameState.history.monsters # <<>>
    /\ \E t \in sockets :
          /\ clientModes[t] # "dm"
          /\ Len(Received(t, "state-sync")) = 1
          /\ Received(t, "state-sync")[1].payload.history.monsters = <<>>
          /\ Received(t, "state-sync")[1].payload.history.combat = gameState.history.combat

\* the entry an effective undo or redo step applies: the top of the stack it pops
AppliedEntry ==
    IF lastOp'.op = "request-undo" THEN Top(gameState.history[lastOp'.page])
    ELSE Top(gameState.redo[lastOp'.page])

IdSeq(chars) == [i \in 1..Len(chars) |-> chars[i].id]

\* C18: right after an effective undo or redo on combat the ids of the document are
\* the ids of the applied entry; on the other pages the sequence of ids is what it
\* was before
C18_ListReconciled ==
    [][ ( lastOp'.op \in {"request-undo", "request-redo"} /\ lastOp'.result = "applied" )
        => IF lastOp'.page = "combat"
           THEN Ids(gameState'.characters) = Ids(AppliedEntry.characters)
           ELSE IdSeq(gameState'.characters) = IdSeq(gameState.characters) ]_vars

\* an undo on combat has just re-inserted a character or deleted one
C18_Witness ==
    /\ Applied("request-undo", "combat")
    /\ undone # None
    /\ Ids(undone.characters) # Ids(gameState.characters)
    /\ gameState.redo.combat # <<>>
    /\ Ids(Top(gameState.redo.combat).characters) = Ids(undone.characters)

\* C19: when a character was removed after save-history-entry(combat) and no other
\* history operation came in between, request-undo(combat) leaves the document
\* with the ids it had at the save, in the same order
C19_UndoKeepsOrder ==
    [][ ( /\ sinceSave # None
          /\ UndoStep("combat")
          /\ Ids(gameState.characters) \subseteq Ids(sinceSave.characters)
          /\ Ids(gameState.characters) # Ids(sinceSave.characters) )
        => IdSeq(gameState'.characters) = IdSeq(sinceSave.characters) ]_vars

\* socket t holds exactly the history-applied message of the step: its page, its
\* direction, and the characters of the document, whole for a dm and without the
\* hidden monsters for anyone else
HistoryAppliedTo(t) ==
    /\ Len(sent'[t]) = 1
    /\ sent'[t][1].event = "history-applied"
    /\ sent'[t][1].payload.page = lastOp'.page
    /\ sent'[t][1].payload.direction =
          (IF lastOp'.op = "request-undo" THEN "undo" ELSE "redo")
    /\ sent'[t][1].payload.characters =
          (IF clientModes[t] = "dm" THEN gameState'.characters
           ELSE SelectSeq(gameState'.characters, VisibleToPlayers))

\* C20: an effective undo or redo sends one history-applied to every connection,
\* the requester included, tagged with the page and the direction and filtered per
\* recipient; the three update handlers send nothing to the connection they came from
C20_Routing ==
    [][ /\ ( lastOp'.op \in {"request-undo", "request-redo"} /\ lastOp'.result = "applied" )
              => /\ lastOp'.sock \in sockets
                 /\ \A t \in sockets : HistoryAppliedTo(t)
        /\ lastOp'.op \in {"update-state", "update-character", "update-combat"}
              => sent'[lastOp'.sock] = <<>> ]_vars

\* a redo requested by a connection that is not dm has just been delivered to the
\* requester and to the dm, the two lists differing by the hidden monster
C20_Witness ==
    /\ lastOp.op = "request-redo"
    /\ lastOp.result = "applied"
    /\ sockets = Sockets
    /\ clientModes[lastOp.sock] # "dm"
    /\ \E u \in sockets :
          /\ clientModes[u] = "dm"
          /\ Len(Received(u, "history-applied")) = 1
          /\ Len(Received(lastOp.sock, "history-applied")) = 1
          /\ Received(u, "history-applied")[1].payload.direction = "redo"
          /\ Received(u, "history-applied")[1].payload.characters
                # Received(lastOp.sock, "history-applied")[1].payload.characters

\* C21: save-history-entry, request-undo and request-redo on page P leave history[Q]
\* and redo[Q] as they were for every other page Q, and an undo or redo on a page
\* other than combat leaves combatState as it was
C21_PagesIndependent ==
    [][ lastOp'.op \in {"save-history-entry", "request-undo", "request-redo"}
        => /\ \A q \in Pages \ {lastOp'.page} :
                 /\ gameState'.history[q] = gameState.history[q]
                 /\ gameState'.redo[q] = gameState.redo[q]
           /\ ( lastOp'.op # "save-history-entry" /\ lastOp'.page # "combat" )
                 => gameState'.combatState = gameState.combatState ]_vars

\* an undo on another page has just run while combat has an entry whose combatState
\* is no longer the current one, and the current one is still there
C21_Witness ==
    /\ lastOp.op = "request-undo"
    /\ lastOp.result = "applied"
    /\ lastOp.page # "combat"
    /\ gameState.history.combat # <<>>
    /\ Top(gameState.history.combat).combatState = InitCombatState
    /\ gameState.combatState # InitCombatState

\* the entries of the two stacks of page p after the step, taken together
BothStacks(p) == Len(gameState'.history[p]) + Len(gameState'.redo[p])

\* C22: the two stacks of a page never hold more than MAX_HISTORY entries together,
\* so that an effective undo or redo moves one entry across and discards none
C22_SumBounded ==
    [][ /\ \A p \in Pages : BothStacks(p) <= MAX_HISTORY
        /\ ( lastOp'.op = "request-undo" /\ lastOp'.result = "applied" )
              => /\ Len(gameState'.redo[lastOp'.page])
                       = Len(gameState.redo[lastOp'.page]) + 1
                 /\ gameState'.history[lastOp'.page] = Pop(gameState.history[lastOp'.page])
        /\ ( lastOp'.op = "request-redo" /\ lastOp'.result = "applied" )
              => /\ Len(gameState'.history[lastOp'.page])
                       = Len(gameState.history[lastOp'.page]) + 1
                 /\ gameState'.redo[lastOp'.page] = Pop(gameState.redo[lastOp'.page])
      ]_vars

\* every entry of a full redo stack has been redone: the last redo pushed the
\* twentieth entry onto history and nothing had to be evicted
C22_Witness ==
    /\ lastOp.op = "request-redo"
    /\ lastOp.result = "applied"
    /\ lastOp.page \in Pages
    /\ Len(gameState.history[lastOp.page]) = MAX_HISTORY
    /\ gameState.redo[lastOp.page] = <<>>
    /\ now > 2 * MAX_HISTORY

\* the character at position j after the step was not in the list before it
Reinserted(j) == gameState'.characters[j].id \notin Ids(gameState.characters)

\* C23: a character that an effective undo or redo on combat puts back into the
\* list stands after every character that stayed, is the record of the applied
\* entry, with id, type and combat-owned fields only, and, if a monster, is hidden:
\* no connection that is not dm receives it
C23_ReinsertedScoped ==
    [][ ( /\ lastOp'.op \in {"request-undo", "request-redo"}
          /\ lastOp'.result = "applied"
          /\ lastOp'.page = "combat" )
        => \A j \in 1..Len(gameState'.characters) :
              Reinserted(j)
                  => LET c == gameState'.characters[j]
                     IN  /\ \A k \in j..Len(gameState'.characters) : Reinserted(k)
                         /\ \E i \in 1..Len(AppliedEntry.characters) :
                                AppliedEntry.characters[i] = c
                         /\ DOMAIN c \subseteq {"id", "type"} \cup PAGE_CHAR_FIELDS.combat
                         /\ c.type = "monster"
                                => /\ HiddenMonster(c)
                                   /\ \A t \in sockets :
                                         clientModes[t] # "dm"
                                             => c.id \notin
                                                  Ids(sent'[t][1].payload.characters) ]_vars

\* an undo on combat has just put back a monster that had been removed: it is last
\* in the list, without its abilities and its revealedToPlayers flag, the dm
\* connection received it and the other connection did not
C23_Witness ==
    /\ Applied("request-undo", "combat")
    /\ undone # None
    /\ gameState.characters # <<>>
    /\ LET c == gameState.characters[Len(gameState.characters)]
       IN  /\ c.type = "monster"
           /\ c.id \notin Ids(undone.characters)
           /\ DOMAIN c = {"id", "type"}
           /\ \E t \in sockets, u \in sockets :
                 /\ clientModes[t] # "dm"
                 /\ clientModes[u] = "dm"
                 /\ Len(Received(t, "history-applied")) = 1
                 /\ Len(Received(u, "history-applied")) = 1
                 /\ c.id \notin Ids(Received(t, "history-applied")[1].payload.characters)
                 /\ c.id \in Ids(Received(u, "history-applied")[1].payload.characters)

\* C24: an update-state or update-character of a connection that is not dm leaves
\* the sequence of ids of the characters, the monsterDatabase and every history and
\* redo stack as they were
C24_NonDmKeepsList ==
    [][ ( /\ lastOp'.op \in {"update-state", "update-character"}
          /\ ModeOf(lastOp'.sock) # "dm" )
        => /\ IdSeq(gameState'.characters) = IdSeq(gameState.characters)
           /\ gameState'.monsterDatabase = gameState.monsterDatabase
           /\ gameState'.history = gameState.history
           /\ gameState'.redo = gameState.redo ]_vars

\* a connection that is not dm has just sent an update-state which wrote the hit
\* points of a character, while the document holds two characters and an entry
C24_Witness ==
    /\ lastOp.op = "update-state"
    /\ lastOp.sock \in sockets
    /\ clientModes[lastOp.sock] # "dm"
    /\ Len(gameState.characters) = 2
    /\ \E i \in 1..Len(gameState.characters) :
          /\ "currentHp" \in DOMAIN gameState.characters[i]
          /\ gameState.characters[i].currentHp = 2
    /\ \E p \in Pages : gameState.history[p] # <<>>

====
